---- MODULE Spec2Model ----
(***************************************************************************)
(* A model of the type-resolution and execution core of the jinko         *)
(* interpreter: the instruction nodes BinaryOp, IfElse, Var and JkInst,   *)
(* the type-checking context TypeCtx with its two passes, and the runtime *)
(* Context the nodes execute against.                                     *)
(***************************************************************************)
EXTENDS Integers, Sequences, FiniteSets, TLC

VARIABLES
    tctx,     \* the TypeCtx: scope stack `types`, is_second_pass, error_handler
    ctx,      \* the runtime Context: scope stack of bindings, error_handler, trace
    node,     \* the instruction under resolution, with its cached types
    last,     \* what the last operation was given and what it returned
    program,  \* the program the two passes walk: a sequence of TypeCtx operations
    pc,       \* index of the next item of `program` to walk
    uses,     \* the answers of the look-ups of the current walk, by item index
    held      \* an instance a caller got from a Var and still holds

vars == <<tctx, ctx, node, last, program, pc, uses, held>>

-----------------------------------------------------------------------------
(* Bounds of the model *)

\* at most this many errors are in an aggregator when an operation starts
MaxErrors == 1
\* at most this many scopes are entered above the outermost one
MaxDepth == 1
\* int literals and stored int payloads range over 0..MaxInt
MaxInt == 3
\* the walked programs have at most this many items
MaxProgram == 4
\* the call a directive is built from has at most this many arguments
MaxArgs == 2

-----------------------------------------------------------------------------
(* Option<T> *)

None == [some |-> FALSE]
Some(v) == [some |-> TRUE, v |-> v]

(* Result<(), Error> *)
Ok == [ok |-> TRUE]
Err(kind, msg) == [ok |-> FALSE, kind |-> kind, msg |-> msg]

(* Error::new(kind).with_msg(msg): the message is kept as its fixed part *)
Error(kind, msg) == [kind |-> kind, msg |-> msg]

-----------------------------------------------------------------------------
(* CheckedType.  typechecker.rs declares Resolved, Void and Unknown;      *)
(* if_else.rs and var.rs also use the markers Later and Error.            *)

Resolved(id) == [ck |-> "Resolved", id |-> id]
Void == [ck |-> "Void", id |-> ""]
Unknown == [ck |-> "Unknown", id |-> ""]
Later == [ck |-> "Later", id |-> ""]
ErrorTy == [ck |-> "Error", id |-> ""]

\* the primitive types TypeCtx::new declares
Primitives == {"bool", "int", "float", "char", "string"}

-----------------------------------------------------------------------------
(* ScopeMap: a stack of scopes, innermost first, each with the three      *)
(* namespaces variables, functions and types.                             *)

EmptyMap == [n \in {} |-> None]
Put(m, k, v) == [x \in (DOMAIN m) \cup {k} |-> IF x = k THEN v ELSE m[x]]

EmptyScope == [variables |-> EmptyMap, functions |-> EmptyMap, types |-> EmptyMap]

\* ScopeMap::scope_enter / scope_exit
ScopeMapEnter(scopes) == <<EmptyScope>> \o scopes
ScopeMapExit(scopes) == Tail(scopes)

\* ScopeMap::get_variable / get_function / get_type: innermost scope first
ScopeMapGet(scopes, ns, name) ==
    LET hits == {i \in 1..Len(scopes) : name \in DOMAIN scopes[i][ns]}
    IN  IF hits = {} THEN None
        ELSE LET i == CHOOSE j \in hits : \A k \in hits : j <= k
             IN  Some(scopes[i][ns][name])

\* ScopeMap::add_variable / add_function / add_type: a name already in the
\* current scope is refused, anything else is added to the current scope
ScopeMapAdd(scopes, ns, name, v) ==
    IF name \in DOMAIN scopes[1][ns]
    THEN [res |-> Err("Context", "already declared"), scopes |-> scopes]
    ELSE [res |-> Ok,
          scopes |-> [scopes EXCEPT ![1] = [@ EXCEPT ![ns] = Put(@, name, v)]]]

-----------------------------------------------------------------------------
(* TypeCtx *)

FunctionType(args_ty, return_ty) == [args_ty |-> args_ty, return_ty |-> return_ty]
CustomTypeType(self_ty, fields_ty) == [self_ty |-> self_ty, fields_ty |-> fields_ty]

\* the closure of or_else letting every refused declaration through
or_else_always_ok(c, res) == Ok

\* `.or_else(|e| if self.is_second_pass { Ok(()) } else { Err(e) })`
or_else_second_pass(c, res) == IF res.ok THEN res ELSE IF c.is_second_pass THEN Ok ELSE res

\* TypeCtx::declare_var / declare_function / declare_custom_type
Declare(c, ns, name, v) ==
    LET r == ScopeMapAdd(c.types, ns, name, v)
    IN  [res |-> or_else_second_pass(c, r.res), ctx |-> [c EXCEPT !.types = r.scopes]]

declare_var(c, name, ty) == Declare(c, "variables", name, ty)
declare_function(c, name, args_ty, return_ty) ==
    Declare(c, "functions", name, FunctionType(args_ty, return_ty))
declare_custom_type(c, name, self_ty, fields_ty) ==
    Declare(c, "types", name, CustomTypeType(self_ty, fields_ty))

\* TypeCtx::get_var / get_function / get_custom_type
get_var(c, name) == ScopeMapGet(c.types, "variables", name)
get_function(c, name) == ScopeMapGet(c.types, "functions", name)
get_custom_type(c, name) == ScopeMapGet(c.types, "types", name)

\* TypeCtx::error
TypeCtxError(c, err) == [c EXCEPT !.error_handler = Append(@, err)]

\* TypeCtx::start_second_pass starting over from the declarations of TypeCtx::new
start_second_pass_fresh(c) ==
    [c EXCEPT !.is_second_pass = TRUE, !.types = <<[EmptyScope EXCEPT !.types =
        [p \in Primitives |-> CustomTypeType(Resolved(p), <<>>)]]>>]

\* TypeCtx::start_second_pass starting the second pass with no error on record
start_second_pass_clear(c) == [c EXCEPT !.is_second_pass = TRUE, !.error_handler = <<>>]

\* TypeCtx::start_second_pass
start_second_pass(c) == [c EXCEPT !.is_second_pass = TRUE]

\* TypeCtx::scope_enter / scope_exit
TypeCtxScopeEnter(c) == [c EXCEPT !.types = ScopeMapEnter(@)]
TypeCtxScopeExit(c) == [c EXCEPT !.types = ScopeMapExit(@)]

\* the primitives are declared one after the other in the first scope
RECURSIVE DeclarePrimitives(_, _)
DeclarePrimitives(c, todo) ==
    IF todo = {} THEN c
    ELSE LET p == CHOOSE x \in todo : TRUE
         IN  DeclarePrimitives(declare_custom_type(c, p, Resolved(p), <<>>).ctx, todo \ {p})

\* TypeCtx::new
TypeCtxNew ==
    DeclarePrimitives(
        TypeCtxScopeEnter([error_handler |-> <<>>, types |-> <<>>, is_second_pass |-> FALSE]),
        Primitives)

-----------------------------------------------------------------------------
(* ObjectInstance: a type tag and a payload *)

ObjectInstance(ty, data) == [ty |-> ty, data |-> data]
\* ObjectInstance::empty
EmptyInstance == ObjectInstance(Unknown, 0)

-----------------------------------------------------------------------------
(* Operator *)

Operators == {"Add", "Sub", "Mul", "Div", "LeftParenthesis", "RightParenthesis",
              "Equals", "NotEquals"}

-----------------------------------------------------------------------------
(* Instruction nodes *)

JkInt(v) == [tag |-> "JkInt", v |-> v]
JkFloat(v) == [tag |-> "JkFloat", v |-> v]
JkBool(b) == [tag |-> "JkBool", b |-> b]
JkChar(v) == [tag |-> "JkChar", v |-> v]
\* Var::new, and a Var given an instance by set_instance
VarWith(name, instance) ==
    [tag |-> "Var", name |-> name, mutable |-> FALSE, instance |-> instance,
     cached_type |-> None]
Var(name) == VarWith(name, EmptyInstance)
\* BinaryOp::new
BinaryOp(lhs, rhs, op) == [tag |-> "BinaryOp", lhs |-> lhs, rhs |-> rhs, op |-> op]
\* Block: its instructions, and whether its last value is discarded
Block(insts, is_statement) == [tag |-> "Block", insts |-> insts, is_statement |-> is_statement]
\* IfElse::new
IfElse(condition, if_body, else_body) ==
    [tag |-> "IfElse", condition |-> condition, if_body |-> if_body,
     else_body |-> else_body, cached_type |-> None]
\* a JkInst of the given JkInstKind, with the arguments of its call
JkInstWith(kind, args) == [tag |-> "JkInst", kind |-> kind, args |-> args]
JkInst(kind) == JkInstWith(kind, <<>>)
\* a call of the function `name`
FunctionCall(name) == [tag |-> "FunctionCall", name |-> name]

-----------------------------------------------------------------------------
(* Type resolution *)

\* what resolve_type and type_of give back: the type, the TypeCtx after the
\* call and the node after the call (its cached types may have changed)
Typed(ty, c, n) == [ty |-> ty, ctx |-> c, node |-> n]

RECURSIVE resolve_type(_, _), type_of(_, _), Block_resolve_insts(_, _, _, _)

\* TypeCheck::cached_type
cached_type(n) ==
    CASE n.tag \in {"Var", "IfElse"} -> n.cached_type
      [] n.tag = "JkInst" -> Some(Void)
      [] OTHER -> None

\* TypeCheck::set_cached_type
set_cached_type(n, ty) ==
    IF n.tag \in {"Var", "IfElse"} THEN [n EXCEPT !.cached_type = Some(ty)] ELSE n

\* TypeCheck::type_of: the cached type, recomputed while it is absent or Later
type_of(n, c) ==
    IF ~cached_type(n).some \/ cached_type(n) = Some(Later)
    THEN LET r == resolve_type(n, c)
         IN  Typed(r.ty, r.ctx, set_cached_type(r.node, r.ty))
    ELSE Typed(cached_type(n).v, c, n)

\* the primitive literals resolve to their primitive type
Literal_resolve_type(n, c) ==
    Typed(Resolved(CASE n.tag = "JkInt" -> "int"
                     [] n.tag = "JkFloat" -> "float"
                     [] n.tag = "JkBool" -> "bool"
                     [] n.tag = "JkChar" -> "char"), c, n)

\* Var::resolve_type passing over an undeclared name in silence
Var_resolve_type_silent(n, c) ==
    LET var_ty == get_var(c, n.name)
    IN  IF var_ty.some THEN Typed(var_ty.v, c, n) ELSE Typed(Unknown, c, n)

\* Var::resolve_type
Var_resolve_type(n, c) ==
    LET var_ty == get_var(c, n.name)
    IN  IF var_ty.some
        THEN Typed(var_ty.v, c, n)
        ELSE Typed(ErrorTy,
                   TypeCtxError(c, Error("TypeChecker", "use of undeclared variable")), n)

\* BinaryOp::resolve_type without the comparison of the operand types
BinaryOp_resolve_type_unchecked(n, c) ==
    LET l == resolve_type(n.lhs, c)
        r == resolve_type(n.rhs, l.ctx)
    IN  Typed(l.ty, r.ctx, [n EXCEPT !.lhs = l.node, !.rhs = r.node])

\* BinaryOp::resolve_type
BinaryOp_resolve_type(n, c) ==
    LET l == resolve_type(n.lhs, c)
        r == resolve_type(n.rhs, l.ctx)
        n2 == [n EXCEPT !.lhs = l.node, !.rhs = r.node]
    IN  IF l.ty # r.ty
        THEN Typed(Unknown,
                   TypeCtxError(r.ctx, Error("TypeChecker",
                       "trying to do binary operation on invalid types")), n2)
        ELSE Typed(l.ty, r.ctx, n2)

\* the instructions of a Block from the i-th on, in order
Block_resolve_insts(n, c, i, ty) ==
    IF i > Len(n.insts) THEN Typed(ty, c, n)
    ELSE LET r == type_of(n.insts[i], c)
         IN  Block_resolve_insts([n EXCEPT !.insts[i] = r.node], r.ctx, i + 1, r.ty)

\* Block: the type of its last instruction, Void when that value is discarded
Block_resolve_type(n, c) ==
    LET r == Block_resolve_insts(n, c, 1, Void)
    IN  Typed(IF n.is_statement THEN Void ELSE r.ty, r.ctx, r.node)

\* IfElse::resolve_type with a missing else block let through
IfElse_resolve_type_no_else(n, c) ==
    LET bool_checkedtype == Resolved("bool")
        cond == type_of(n.condition, c)
    IN  IF cond.ty = Later /\ ~cond.ctx.is_second_pass
        THEN Typed(Later, cond.ctx, [n EXCEPT !.condition = cond.node])
        ELSE
        LET c1 == IF cond.ty # bool_checkedtype
                  THEN TypeCtxError(cond.ctx,
                           Error("TypeChecker", "if condition should be a boolean"))
                  ELSE cond.ctx
            if_r == type_of(n.if_body, c1)
            else_r == IF n.else_body.some THEN type_of(n.else_body.v, if_r.ctx)
                    ELSE Typed(Void, if_r.ctx, n.if_body)
            else_ty == IF n.else_body.some THEN Some(else_r.ty) ELSE None
            n2 == [n EXCEPT !.condition = cond.node, !.if_body = if_r.node,
                            !.else_body = IF n.else_body.some THEN Some(else_r.node) ELSE None]
        IN  CASE if_r.ty = Void /\ ~else_ty.some -> Typed(Void, else_r.ctx, n2)
              [] else_ty.some ->
                    IF if_r.ty # else_ty.v
                    THEN Typed(ErrorTy,
                               TypeCtxError(else_r.ctx, Error("TypeChecker",
                                   "incompatible types for if and else block")), n2)
                    ELSE Typed(if_r.ty, else_r.ctx, n2)
              [] OTHER -> Typed(if_r.ty, else_r.ctx, n2)

\* IfElse::resolve_type giving up at a condition that is not a boolean
IfElse_resolve_type_abort(n, c) ==
    LET bool_checkedtype == Resolved("bool")
        cond == type_of(n.condition, c)
    IN  IF cond.ty = Later /\ ~cond.ctx.is_second_pass
        THEN Typed(Later, cond.ctx, [n EXCEPT !.condition = cond.node])
        ELSE
        IF cond.ty # bool_checkedtype
        THEN Typed(ErrorTy,
                   TypeCtxError(cond.ctx,
                       Error("TypeChecker", "if condition should be a boolean")),
                   [n EXCEPT !.condition = cond.node])
        ELSE
        LET c1 == IF cond.ty # bool_checkedtype
                  THEN TypeCtxError(cond.ctx,
                           Error("TypeChecker", "if condition should be a boolean"))
                  ELSE cond.ctx
            if_r == type_of(n.if_body, c1)
            else_r == IF n.else_body.some THEN type_of(n.else_body.v, if_r.ctx)
                    ELSE Typed(Void, if_r.ctx, n.if_body)
            else_ty == IF n.else_body.some THEN Some(else_r.ty) ELSE None
            n2 == [n EXCEPT !.condition = cond.node, !.if_body = if_r.node,
                            !.else_body = IF n.else_body.some THEN Some(else_r.node) ELSE None]
        IN  CASE if_r.ty = Void /\ ~else_ty.some -> Typed(Void, else_r.ctx, n2)
              [] else_ty.some ->
                    IF if_r.ty # else_ty.v
                    THEN Typed(ErrorTy,
                               TypeCtxError(else_r.ctx, Error("TypeChecker",
                                   "incompatible types for if and else block")), n2)
                    ELSE Typed(if_r.ty, else_r.ctx, n2)
              [] OTHER ->
                    Typed(ErrorTy,
                          TypeCtxError(else_r.ctx, Error("TypeChecker",
                              "if block has a return type but no else block to match it")),
                          n2)

\* IfElse::resolve_type deferring a Later condition in the second pass too
IfElse_resolve_type_defer(n, c) ==
    LET bool_checkedtype == Resolved("bool")
        cond == type_of(n.condition, c)
    IN  IF cond.ty = Later
        THEN Typed(Later, cond.ctx, [n EXCEPT !.condition = cond.node])
        ELSE
        LET c1 == IF cond.ty # bool_checkedtype
                  THEN TypeCtxError(cond.ctx,
                           Error("TypeChecker", "if condition should be a boolean"))
                  ELSE cond.ctx
            if_r == type_of(n.if_body, c1)
            else_r == IF n.else_body.some THEN type_of(n.else_body.v, if_r.ctx)
                    ELSE Typed(Void, if_r.ctx, n.if_body)
            else_ty == IF n.else_body.some THEN Some(else_r.ty) ELSE None
            n2 == [n EXCEPT !.condition = cond.node, !.if_body = if_r.node,
                            !.else_body = IF n.else_body.some THEN Some(else_r.node) ELSE None]
        IN  CASE if_r.ty = Void /\ ~else_ty.some -> Typed(Void, else_r.ctx, n2)
              [] else_ty.some ->
                    IF if_r.ty # else_ty.v
                    THEN Typed(ErrorTy,
                               TypeCtxError(else_r.ctx, Error("TypeChecker",
                                   "incompatible types for if and else block")), n2)
                    ELSE Typed(if_r.ty, else_r.ctx, n2)
              [] OTHER ->
                    Typed(ErrorTy,
                          TypeCtxError(else_r.ctx, Error("TypeChecker",
                              "if block has a return type but no else block to match it")),
                          n2)

\* IfElse::resolve_type
IfElse_resolve_type(n, c) ==
    LET bool_checkedtype == Resolved("bool")
        cond == type_of(n.condition, c)
    IN  IF cond.ty = Later /\ ~cond.ctx.is_second_pass
        THEN Typed(Later, cond.ctx, [n EXCEPT !.condition = cond.node])
        ELSE
        LET c1 == IF cond.ty # bool_checkedtype
                  THEN TypeCtxError(cond.ctx,
                           Error("TypeChecker", "if condition should be a boolean"))
                  ELSE cond.ctx
            if_r == type_of(n.if_body, c1)
            else_r == IF n.else_body.some THEN type_of(n.else_body.v, if_r.ctx)
                    ELSE Typed(Void, if_r.ctx, n.if_body)
            else_ty == IF n.else_body.some THEN Some(else_r.ty) ELSE None
            n2 == [n EXCEPT !.condition = cond.node, !.if_body = if_r.node,
                            !.else_body = IF n.else_body.some THEN Some(else_r.node) ELSE None]
        IN  CASE if_r.ty = Void /\ ~else_ty.some -> Typed(Void, else_r.ctx, n2)
              [] else_ty.some ->
                    IF if_r.ty # else_ty.v
                    THEN Typed(ErrorTy,
                               TypeCtxError(else_r.ctx, Error("TypeChecker",
                                   "incompatible types for if and else block")), n2)
                    ELSE Typed(if_r.ty, else_r.ctx, n2)
              [] OTHER ->
                    Typed(ErrorTy,
                          TypeCtxError(else_r.ctx, Error("TypeChecker",
                              "if block has a return type but no else block to match it")),
                          n2)

\* JkInst::resolve_type
JkInst_resolve_type(n, c) == Typed(Void, c, n)

\* a call resolves to the return type of the function; a function not declared
\* yet is Later in the first pass and an error in the second
FunctionCall_resolve_type(n, c) ==
    LET f == get_function(c, n.name)
    IN  IF f.some THEN Typed(f.v.return_ty, c, n)
        ELSE IF ~c.is_second_pass THEN Typed(Later, c, n)
        ELSE Typed(ErrorTy, TypeCtxError(c, Error("TypeChecker", "undeclared function")), n)

\* TypeCheck::resolve_type, by node variant
resolve_type(n, c) ==
    CASE n.tag = "Var" -> Var_resolve_type(n, c)
      [] n.tag = "BinaryOp" -> BinaryOp_resolve_type(n, c)
      [] n.tag = "IfElse" -> IfElse_resolve_type(n, c)
      [] n.tag = "Block" -> Block_resolve_type(n, c)
      [] n.tag = "JkInst" -> JkInst_resolve_type(n, c)
      [] n.tag = "FunctionCall" -> FunctionCall_resolve_type(n, c)
      [] OTHER -> Literal_resolve_type(n, c)

-----------------------------------------------------------------------------
(* The runtime Context *)

\* Context::new: one scope, no binding, no error
ContextNew == [scopes |-> <<[variables |-> EmptyMap]>>, error_handler |-> <<>>]

\* Context::error
ContextError(c, err) == [c EXCEPT !.error_handler = Append(@, err)]

\* Context::scope_enter / scope_exit
ContextScopeEnter(c) == [c EXCEPT !.scopes = <<[variables |-> EmptyMap]>> \o @]
ContextScopeExit(c) == [c EXCEPT !.scopes = Tail(@)]

\* Context::add_variable: the Var is stored under its name in the current scope
add_variable(c, var) ==
    LET r == ScopeMapAdd(c.scopes, "variables", var.name, var)
    IN  [res |-> r.res, ctx |-> [c EXCEPT !.scopes = r.scopes]]

\* Context::get_variable
get_variable(c, name) == ScopeMapGet(c.scopes, "variables", name)

\* Context::replace_variable: the innermost binding of the name gets the new Var
replace_variable(c, var) ==
    LET hits == {i \in 1..Len(c.scopes) : var.name \in DOMAIN c.scopes[i].variables}
    IN  IF hits = {} THEN [res |-> Err("Context", "not declared"), ctx |-> c]
        ELSE LET i == CHOOSE j \in hits : \A k \in hits : j <= k
             IN  [res |-> Ok, ctx |-> [c EXCEPT !.scopes[i].variables[var.name] = var]]

-----------------------------------------------------------------------------
(* The primitive values and their kernels *)

\* JkInt::from(v).to_instance() and its siblings
IntInstance(v) == ObjectInstance(Resolved("int"), v)
FloatInstance(v) == ObjectInstance(Resolved("float"), v)
BoolInstance(b) == ObjectInstance(Resolved("bool"), IF b THEN 1 ELSE 0)
CharInstance(v) == ObjectInstance(Resolved("char"), v)

\* JkBool::from_instance(i).rust_value()
rust_value(i) == i.data # 0

\* the quotient of Rust's `/`, rounded towards zero
TruncDiv(a, b) ==
    LET abs(x) == IF x < 0 THEN -x ELSE x
        q == abs(a) \div abs(b)
    IN  IF (a < 0) = (b < 0) THEN q ELSE -q

\* Value::do_op of a primitive type: Ok(instance), a typed failure, or no
\* answer at all for the pseudo-operators
do_op(ty, l, r, op) ==
    LET make(x) == ObjectInstance(Resolved(ty), x)
    IN
    CASE op = "Add" -> [ok |-> TRUE, v |-> make(l + r), panic |-> FALSE]
      [] op = "Sub" -> [ok |-> TRUE, v |-> make(l - r), panic |-> FALSE]
      [] op = "Mul" -> [ok |-> TRUE, v |-> make(l * r), panic |-> FALSE]
      [] op = "Div" ->
            IF r = 0
            THEN [ok |-> FALSE, v |-> Error("Context", "division by zero"), panic |-> FALSE]
            ELSE [ok |-> TRUE, v |-> make(TruncDiv(l, r)), panic |-> FALSE]
      [] op = "Equals" -> [ok |-> TRUE, v |-> BoolInstance(l = r), panic |-> FALSE]
      [] op = "NotEquals" -> [ok |-> TRUE, v |-> BoolInstance(l # r), panic |-> FALSE]
      [] OTHER -> [ok |-> FALSE, v |-> Error("Context", "no operation"), panic |-> TRUE]

JkInt_do_op(l, r, op) == do_op("int", l, r, op)
JkFloat_do_op(l, r, op) == do_op("float", l, r, op)

-----------------------------------------------------------------------------
(* Execution *)

\* what execute gives back: the optional instance, the Context after the
\* call, the lines logged, and how the call ended: "ok" (it returned),
\* "panic" (an unreachable!() was reached) or "exit" (the process was ended)
Exec(res, c, log, status) == [res |-> res, ctx |-> c, log |-> log, status |-> status]

RECURSIVE execute(_, _), Block_execute_insts(_, _, _)

\* the primitive literals execute to their instance
Literal_execute(n, c) ==
    Exec(Some(CASE n.tag = "JkInt" -> IntInstance(n.v)
                [] n.tag = "JkFloat" -> FloatInstance(n.v)
                [] n.tag = "JkBool" -> BoolInstance(n.b)
                [] n.tag = "JkChar" -> CharInstance(n.v)), c, <<>>, "ok")

\* Var::instance handing out the live binding instead of a copy of its instance
instance_alias(var) == [alias |-> var.name]

\* Var::instance: a copy of the instance
instance(var) == var.instance

\* Var::execute
Var_execute(n, c) ==
    LET var == get_variable(c, n.name)
    IN  IF ~var.some
        THEN Exec(None,
                  ContextError(c, Error("Context", "variable has not been declared")),
                  <<>>, "ok")
        ELSE Exec(Some(instance(var.v)), c, <<"var">>, "ok")

\* BinaryOp::execute_node passing an operand's nothing on without a word
execute_node_silent(n, c) == execute(n, c)

\* BinaryOp::execute_node
execute_node(n, c) ==
    LET r == execute(n, c)
    IN  IF r.status = "ok" /\ ~r.res.some
        THEN Exec(None,
                  ContextError(r.ctx, Error("Context",
                      "invalid use of statement in binary operation")),
                  r.log, "ok")
        ELSE r

\* BinaryOp::execute handing the operands to the kernel the wrong way round
BinaryOp_execute_swapped(n, c) ==
    LET enter == <<"BINOP ENTER">>
        l == execute_node(n.lhs, c)
    IN  IF l.status # "ok" \/ ~l.res.some THEN Exec(None, l.ctx, enter \o l.log, l.status)
        ELSE
        LET r == execute_node(n.rhs, l.ctx)
            log == enter \o l.log \o r.log
            l_value == l.res.v
            r_value == r.res.v
        IN  IF r.status # "ok" \/ ~r.res.some THEN Exec(None, r.ctx, log, r.status)
            ELSE IF l_value.ty # r_value.ty THEN Exec(None, r.ctx, log, "ok")
            ELSE IF l_value.ty \notin {Resolved("int"), Resolved("float")}
                 THEN Exec(None, r.ctx, log, "panic")
            ELSE
            LET res == IF l_value.ty = Resolved("int")
                       THEN JkInt_do_op(r_value.data, l_value.data, n.op)
                       ELSE JkFloat_do_op(r_value.data, l_value.data, n.op)
            IN  IF res.panic THEN Exec(None, r.ctx, log, "panic")
                ELSE IF ~res.ok THEN Exec(None, ContextError(r.ctx, res.v), log, "ok")
                ELSE Exec(Some(res.v), r.ctx, log \o <<"BINOP EXIT">>, "ok")

\* BinaryOp::execute going on to the right operand after the left one yielded nothing
BinaryOp_execute_both(n, c) ==
    LET enter == <<"BINOP ENTER">>
        l == execute_node(n.lhs, c)
        r == execute_node(n.rhs, l.ctx)
        log == enter \o l.log \o r.log
    IN  IF l.status # "ok" THEN Exec(None, l.ctx, enter \o l.log, l.status)
        ELSE IF r.status # "ok" THEN Exec(None, r.ctx, log, r.status)
        ELSE IF ~l.res.some \/ ~r.res.some THEN Exec(None, r.ctx, log, "ok")
        ELSE IF l.res.v.ty # r.res.v.ty THEN Exec(None, r.ctx, log, "ok")
        ELSE IF l.res.v.ty \notin {Resolved("int"), Resolved("float")}
             THEN Exec(None, r.ctx, log, "panic")
        ELSE
        LET res == IF l.res.v.ty = Resolved("int")
                   THEN JkInt_do_op(l.res.v.data, r.res.v.data, n.op)
                   ELSE JkFloat_do_op(l.res.v.data, r.res.v.data, n.op)
        IN  IF res.panic THEN Exec(None, r.ctx, log, "panic")
            ELSE IF ~res.ok THEN Exec(None, ContextError(r.ctx, res.v), log, "ok")
            ELSE Exec(Some(res.v), r.ctx, log \o <<"BINOP EXIT">>, "ok")

\* BinaryOp::execute without the comparison of the operand values' types
BinaryOp_execute_unguarded(n, c) ==
    LET enter == <<"BINOP ENTER">>
        l == execute_node(n.lhs, c)
    IN  IF l.status # "ok" \/ ~l.res.some THEN Exec(None, l.ctx, enter \o l.log, l.status)
        ELSE
        LET r == execute_node(n.rhs, l.ctx)
            log == enter \o l.log \o r.log
        IN  IF r.status # "ok" \/ ~r.res.some THEN Exec(None, r.ctx, log, r.status)
            ELSE IF l.res.v.ty \notin {Resolved("int"), Resolved("float")}
                 THEN Exec(None, r.ctx, log, "panic")
            ELSE
            LET res == IF l.res.v.ty = Resolved("int")
                       THEN JkInt_do_op(l.res.v.data, r.res.v.data, n.op)
                       ELSE JkFloat_do_op(l.res.v.data, r.res.v.data, n.op)
            IN  IF res.panic THEN Exec(None, r.ctx, log, "panic")
                ELSE IF ~res.ok THEN Exec(None, ContextError(r.ctx, res.v), log, "ok")
                ELSE Exec(Some(res.v), r.ctx, log \o <<"BINOP EXIT">>, "ok")

\* BinaryOp::execute
BinaryOp_execute(n, c) ==
    LET enter == <<"BINOP ENTER">>
        l == execute_node(n.lhs, c)
    IN  IF l.status # "ok" \/ ~l.res.some THEN Exec(None, l.ctx, enter \o l.log, l.status)
        ELSE
        LET r == execute_node(n.rhs, l.ctx)
            log == enter \o l.log \o r.log
            l_value == l.res.v
            r_value == r.res.v
        IN  IF r.status # "ok" \/ ~r.res.some THEN Exec(None, r.ctx, log, r.status)
            ELSE IF l_value.ty # r_value.ty THEN Exec(None, r.ctx, log, "ok")
            ELSE IF l_value.ty \notin {Resolved("int"), Resolved("float")}
                 THEN Exec(None, r.ctx, log, "panic")
            ELSE
            LET res == IF l_value.ty = Resolved("int")
                       THEN JkInt_do_op(l_value.data, r_value.data, n.op)
                       ELSE JkFloat_do_op(l_value.data, r_value.data, n.op)
            IN  IF res.panic THEN Exec(None, r.ctx, log, "panic")
                ELSE IF ~res.ok THEN Exec(None, ContextError(r.ctx, res.v), log, "ok")
                ELSE Exec(Some(res.v), r.ctx, log \o <<"BINOP EXIT">>, "ok")

\* the instructions of a Block from the i-th on, in order
Block_execute_insts(n, i, acc) ==
    IF i > Len(n.insts) \/ acc.status # "ok" THEN acc
    ELSE LET r == execute(n.insts[i], acc.ctx)
         IN  Block_execute_insts(n, i + 1, Exec(r.res, r.ctx, acc.log \o r.log, r.status))

\* Block: the value of its last instruction, nothing when that value is discarded
Block_execute(n, c) ==
    LET r == Block_execute_insts(n, 1, Exec(None, c, <<>>, "ok"))
    IN  IF r.status = "ok" /\ n.is_statement THEN Exec(None, r.ctx, r.log, "ok") ELSE r

\* IfElse::execute taking the else-block on a true condition
IfElse_execute_inverted(n, c) ==
    LET enter == <<"if_else enter">>
        cond == execute(n.condition, c)
    IN  IF cond.status # "ok" \/ ~cond.res.some
        THEN Exec(None, cond.ctx, enter \o cond.log, cond.status)
        ELSE IF ~rust_value(cond.res.v)
        THEN LET b == Block_execute(n.if_body, cond.ctx)
             IN  Exec(b.res, b.ctx, enter \o cond.log \o <<"if enter">> \o b.log, b.status)
        ELSE IF n.else_body.some
        THEN LET b == Block_execute(n.else_body.v, cond.ctx)
             IN  Exec(b.res, b.ctx, enter \o cond.log \o <<"else enter">> \o b.log, b.status)
        ELSE Exec(None, cond.ctx, enter \o cond.log \o <<"else enter">>, "ok")

\* IfElse::execute
IfElse_execute(n, c) ==
    LET enter == <<"if_else enter">>
        cond == execute(n.condition, c)
    IN  IF cond.status # "ok" \/ ~cond.res.some
        THEN Exec(None, cond.ctx, enter \o cond.log, cond.status)
        ELSE IF rust_value(cond.res.v)
        THEN LET b == Block_execute(n.if_body, cond.ctx)
             IN  Exec(b.res, b.ctx, enter \o cond.log \o <<"if enter">> \o b.log, b.status)
        ELSE IF n.else_body.some
        THEN LET b == Block_execute(n.else_body.v, cond.ctx)
             IN  Exec(b.res, b.ctx, enter \o cond.log \o <<"else enter">> \o b.log, b.status)
        ELSE Exec(None, cond.ctx, enter \o cond.log \o <<"else enter">>, "ok")

\* JkInst::kind
JkInst_kind(n) == "Statement"

\* JkInst::execute giving back the empty instance where it has nothing to give
JkInst_execute_empty(n, c) ==
    CASE n.kind = "Dump" -> Exec(Some(EmptyInstance), c, <<"jinko_inst", "dump">>, "ok")
      [] n.kind = "Quit" -> Exec(None, c, <<"jinko_inst">>, "exit")
      [] n.kind = "Ir" -> Exec(Some(EmptyInstance), c, <<"jinko_inst", "usage">>, "ok")

\* JkInst::execute
JkInst_execute(n, c) ==
    CASE n.kind = "Dump" -> Exec(None, c, <<"jinko_inst", "dump">>, "ok")
      [] n.kind = "Quit" -> Exec(None, c, <<"jinko_inst">>, "exit")
      [] n.kind = "Ir" -> Exec(None, c, <<"jinko_inst", "usage">>, "ok")

\* Instruction::execute, by node variant
execute(n, c) ==
    CASE n.tag = "Var" -> Var_execute(n, c)
      [] n.tag = "BinaryOp" -> BinaryOp_execute(n, c)
      [] n.tag = "IfElse" -> IfElse_execute(n, c)
      [] n.tag = "Block" -> Block_execute(n, c)
      [] n.tag = "JkInst" -> JkInst_execute(n, c)
      [] n.tag \in {"JkInt", "JkFloat", "JkBool", "JkChar"} -> Literal_execute(n, c)

-----------------------------------------------------------------------------
(* JkInst::from_function_call *)

\* a parsed call: its name and its arguments
FunctionCallWith(name, args) == [tag |-> "FunctionCall", name |-> name, args |-> args]

\* JkInst::from_function_call taking every unknown name for a dump
from_function_call_lenient(fc) ==
    LET func_name == fc.name
    IN  CASE func_name = "quit" -> [ok |-> TRUE, v |-> JkInstWith("Quit", fc.args)]
          [] func_name = "ir" -> [ok |-> TRUE, v |-> JkInstWith("Ir", fc.args)]
          [] OTHER -> [ok |-> TRUE, v |-> JkInstWith("Dump", fc.args)]

from_function_call(fc) ==
    LET func_name == fc.name
    IN  CASE func_name = "dump" -> [ok |-> TRUE, v |-> JkInstWith("Dump", fc.args)]
          [] func_name = "quit" -> [ok |-> TRUE, v |-> JkInstWith("Quit", fc.args)]
          [] func_name = "ir" -> [ok |-> TRUE, v |-> JkInstWith("Ir", fc.args)]
          [] OTHER -> [ok |-> FALSE, v |-> Error("Parsing", "unknown ctx directive")]

-----------------------------------------------------------------------------
(* The instructions the model resolves *)

TLeaves ==
    {JkInt(1), JkFloat(1), JkBool(TRUE), Var("a"), Var("b"), FunctionCall("f"),
     JkInst("Dump")}

TBinOps ==
    {BinaryOp(l, r, "Add") : l \in TLeaves, r \in TLeaves}
        \cup {BinaryOp(JkInt(1), r, "Equals") : r \in TLeaves}

\* what the blocks of the resolved IfElse hold
TBodies == {JkInt(1), JkFloat(1), Var("b"), BinaryOp(JkInt(1), JkFloat(1), "Add")}

TBlocks ==
    {Block(<<>>, TRUE), Block(<<JkInt(1)>>, TRUE)}
        \cup {Block(<<x>>, FALSE) : x \in TBodies}

TConds == {JkBool(TRUE), JkFloat(1), Var("a"), FunctionCall("f")}

TIfElses ==
    {IfElse(cnd, b, e) : cnd \in TConds, b \in TBlocks,
                         e \in {None} \cup {Some(x) : x \in TBlocks}}

\* an IfElse as the operand of a BinaryOp and as the body of an IfElse
TInner ==
    {IfElse(JkBool(TRUE), Block(<<x>>, FALSE), Some(Block(<<y>>, FALSE))) :
        x \in {JkInt(1), Var("b")}, y \in {JkInt(1), JkFloat(1)}}

TNested ==
    {BinaryOp(i, r, "Add") : i \in TInner, r \in {JkInt(1), JkFloat(1)}}
        \cup {IfElse(Var("a"), Block(<<i>>, FALSE), e) :
                i \in TInner, e \in {None, Some(Block(<<JkInt(1)>>, FALSE))}}

TypeTrees == TLeaves \cup TBinOps \cup TIfElses \cup TNested

\* the names and types the model declares
VarNames == {"a"}
VarTypes == {Resolved("int")}
FunctionNames == {"f"}
TypeNames == {"T"}
\* the names of the calls a directive is built from
CallNames == {"dump", "quit", "ir", "tamer", "Dump", "dumps", ""}

-----------------------------------------------------------------------------
(* State *)

\* the record of the last operation: its name, its argument, what it
\* returned, the context it was given, how it ended, and the lines it logged
Last(op, arg, res, pre, status) ==
    [op |-> op, arg |-> arg, res |-> res, pre |-> pre, status |-> status, log |-> <<>>]

Init ==
    /\ tctx = TypeCtxNew
    /\ ctx = ContextNew
    /\ node = None
    /\ last = Last("new", None, None, None, "ok")
    /\ program = <<>>
    /\ pc = 0
    /\ uses = <<>>
    /\ held = None

\* nothing runs once the process has panicked or exited
Running == last.status = "ok"

-----------------------------------------------------------------------------
(* Operations on the TypeCtx *)

TypeVarsOnly == UNCHANGED <<ctx, program, pc, uses, held>>

TDeclareVar(name, ty) ==
    /\ Running
    /\ ~node.some
    /\ LET r == declare_var(tctx, name, ty)
       IN  /\ tctx' = r.ctx
           /\ last' = Last("declare_var", name, r.res, tctx, "ok")
    /\ UNCHANGED node
    /\ TypeVarsOnly

TDeclareFunction(name) ==
    /\ Running
    /\ ~node.some
    /\ LET r == declare_function(tctx, name, <<>>, Resolved("int"))
       IN  /\ tctx' = r.ctx
           /\ last' = Last("declare_function", name, r.res, tctx, "ok")
    /\ UNCHANGED node
    /\ TypeVarsOnly

TDeclareCustomType(name) ==
    /\ Running
    /\ ~node.some
    /\ LET r == declare_custom_type(tctx, name, Resolved(name), <<>>)
       IN  /\ tctx' = r.ctx
           /\ last' = Last("declare_custom_type", name, r.res, tctx, "ok")
    /\ UNCHANGED node
    /\ TypeVarsOnly

TScopeEnter ==
    /\ Running
    /\ ~node.some
    /\ Len(tctx.types) <= MaxDepth
    /\ tctx' = TypeCtxScopeEnter(tctx)
    /\ last' = Last("scope_enter", None, None, tctx, "ok")
    /\ UNCHANGED node
    /\ TypeVarsOnly

\* the scope TypeCtx::new entered is never exited
TScopeExit ==
    /\ Running
    /\ ~node.some
    /\ Len(tctx.types) > 1
    /\ tctx' = TypeCtxScopeExit(tctx)
    /\ last' = Last("scope_exit", None, None, tctx, "ok")
    /\ UNCHANGED node
    /\ TypeVarsOnly

TStartSecondPass ==
    /\ Running
    /\ tctx' = start_second_pass(tctx)
    /\ last' = Last("start_second_pass", None, None, tctx, "ok")
    /\ UNCHANGED node
    /\ TypeVarsOnly

\* a freshly built instruction is resolved
TResolveType(n) ==
    /\ Running
    /\ ~node.some
    /\ Len(tctx.error_handler) < MaxErrors
    /\ LET r == resolve_type(n, tctx)
       IN  /\ tctx' = r.ctx
           /\ node' = Some(r.node)
           /\ last' = Last("resolve_type", n, r.ty, tctx, "ok")
    /\ TypeVarsOnly

\* the instruction resolved last is asked for its type again
TTypeOf ==
    /\ Running
    /\ node.some
    /\ Len(tctx.error_handler) < MaxErrors
    /\ LET r == type_of(node.v, tctx)
       IN  /\ tctx' = r.ctx
           /\ node' = Some(r.node)
           /\ last' = Last("type_of", node.v, r.ty, tctx, "ok")
    /\ TypeVarsOnly

\* the instruction resolved last is dropped; the TypeCtx stays as it is
TDrop ==
    /\ Running
    /\ node.some
    /\ node' = None
    /\ last' = Last("drop", None, None, tctx, "ok")
    /\ UNCHANGED tctx
    /\ TypeVarsOnly

NextType ==
    \/ \E name \in VarNames, ty \in VarTypes : TDeclareVar(name, ty)
    \/ \E name \in FunctionNames : TDeclareFunction(name)
    \/ TScopeEnter
    \/ TScopeExit
    \/ TStartSecondPass
    \/ \E n \in TypeTrees : TResolveType(n)
    \/ TTypeOf
    \/ TDrop

SpecType == Init /\ [][NextType]_vars

-----------------------------------------------------------------------------
(* Declarations and look-ups alone, in the three namespaces *)

TGet(ns, name) ==
    /\ Running
    /\ ~node.some
    /\ last' = Last(CASE ns = "variables" -> "get_var"
                      [] ns = "functions" -> "get_function"
                      [] ns = "types" -> "get_custom_type",
                    name,
                    CASE ns = "variables" -> get_var(tctx, name)
                      [] ns = "functions" -> get_function(tctx, name)
                      [] ns = "types" -> get_custom_type(tctx, name),
                    tctx, "ok")
    /\ UNCHANGED <<tctx, node>>
    /\ TypeVarsOnly

\* the names declared and looked up; the custom types include a primitive
DeclNames == {"a"}
DeclTypeNames == {"a", "int"}

NextDecl ==
    \/ \E name \in DeclNames, ty \in VarTypes : TDeclareVar(name, ty)
    \/ \E name \in DeclNames : TDeclareFunction(name)
    \/ \E name \in DeclTypeNames : TDeclareCustomType(name)
    \/ \E ns \in {"variables", "functions", "types"}, name \in DeclTypeNames : TGet(ns, name)
    \/ TScopeEnter
    \/ TScopeExit
    \/ TStartSecondPass

SpecDecl == Init /\ [][NextDecl]_vars

-----------------------------------------------------------------------------
(* The instructions the model executes *)

EInts == {JkInt(v) : v \in 0..MaxInt}

\* every pair of int literals under every operator of the int kernel, and the
\* operand pairs and operators BinaryOp::execute has no kernel for
EBinOps ==
    {BinaryOp(l, r, op) : l \in EInts, r \in EInts,
                          op \in {"Add", "Sub", "Mul", "Div", "Equals", "NotEquals"}}
        \cup {BinaryOp(JkFloat(1), JkFloat(2), op) : op \in {"Add", "Sub"}}
        \cup {BinaryOp(l, r, "Add") :
                l \in {JkInt(1), JkFloat(1), JkBool(TRUE), Var("a"), JkInst("Dump")},
                r \in {JkInt(1), JkFloat(1), JkBool(TRUE), Var("a"), JkInst("Dump")}}
        \cup {BinaryOp(JkInt(1), JkInt(1), "LeftParenthesis")}

\* a BinaryOp as an operand
ENested ==
    {BinaryOp(JkInt(MaxInt), BinaryOp(JkInt(2), JkInt(v), op), "Sub") :
        v \in 0..1, op \in {"Mul", "Div"}}
        \cup {BinaryOp(BinaryOp(JkInt(2), JkInt(v), op), JkInt(MaxInt), "Sub") :
                v \in 0..1, op \in {"Mul", "Div"}}
        \cup {BinaryOp(Var("b"), BinaryOp(JkInt(2), JkInt(0), "Div"), "Add")}

EConds == {JkBool(TRUE), JkBool(FALSE), Var("a"), JkInst("Dump"), JkInt(0), JkInt(1)}

EBlocks ==
    {Block(<<>>, TRUE), Block(<<JkInt(2)>>, FALSE), Block(<<JkInt(MaxInt)>>, FALSE),
     Block(<<Var("b")>>, FALSE), Block(<<JkInt(2)>>, TRUE)}

EIfElses ==
    {IfElse(cnd, b, e) : cnd \in EConds, b \in EBlocks,
                         e \in {None} \cup {Some(x) : x \in EBlocks}}

ExecTrees ==
    EInts \cup {JkInst("Dump"), JkInst("Ir"), JkInst("Quit")}
        \cup EBinOps \cup ENested \cup EIfElses

\* the instances the model binds to variables
BindInstances == {IntInstance(1), BoolInstance(FALSE)}

-----------------------------------------------------------------------------
(* Operations on the runtime Context *)

ExecVarsOnly == UNCHANGED <<tctx, node, program, pc, uses>>

\* a Var with the given instance is bound in the current scope
EAddVariable(name, inst) ==
    /\ Running
    /\ LET r == add_variable(ctx, VarWith(name, inst))
       IN  /\ ctx' = r.ctx
           /\ last' = Last("add_variable", VarWith(name, inst), r.res, ctx, "ok")
    /\ UNCHANGED held
    /\ ExecVarsOnly

\* the binding of a name gets a new instance
EReplaceVariable(name, inst) ==
    /\ Running
    /\ LET r == replace_variable(ctx, VarWith(name, inst))
       IN  /\ ctx' = r.ctx
           /\ last' = Last("replace_variable", VarWith(name, inst), r.res, ctx, "ok")
    /\ UNCHANGED held
    /\ ExecVarsOnly

EScopeEnter ==
    /\ Running
    /\ Len(ctx.scopes) <= MaxDepth
    /\ ctx' = ContextScopeEnter(ctx)
    /\ last' = Last("scope_enter", None, None, ctx, "ok")
    /\ UNCHANGED held
    /\ ExecVarsOnly

\* the scope Context::new entered is never exited
EScopeExit ==
    /\ Running
    /\ Len(ctx.scopes) > 1
    /\ ctx' = ContextScopeExit(ctx)
    /\ last' = Last("scope_exit", None, None, ctx, "ok")
    /\ UNCHANGED held
    /\ ExecVarsOnly

\* an instruction is executed; the caller of a Var keeps the instance it got,
\* beside the instance the binding held at that time
EExecute(n) ==
    /\ Running
    /\ last.op # "execute"
    /\ Len(ctx.error_handler) < MaxErrors
    /\ LET r == execute(n, ctx)
       IN  /\ ctx' = r.ctx
           /\ last' = [Last("execute", n, r.res, ctx, r.status) EXCEPT !.log = r.log]
           /\ held' = IF n.tag = "Var" /\ r.res.some
                      THEN Some([name |-> n.name, got |-> r.res.v,
                                 stored |-> get_variable(ctx, n.name).v.instance])
                      ELSE held
    /\ ExecVarsOnly

\* the caller is done with what the last execute returned
EReturn ==
    /\ Running
    /\ last.op = "execute"
    /\ last' = Last("return", None, None, ctx, "ok")
    /\ UNCHANGED <<ctx, held>>
    /\ ExecVarsOnly

NextExec ==
    \/ \E name \in VarNames, inst \in BindInstances : EAddVariable(name, inst)
    \/ \E name \in VarNames, inst \in BindInstances : EReplaceVariable(name, inst)
    \/ EScopeEnter
    \/ EScopeExit
    \/ \E n \in ExecTrees : EExecute(n)
    \/ EReturn

SpecExec == Init /\ [][NextExec]_vars

-----------------------------------------------------------------------------
(* Var alone, against the TypeCtx and against the Context *)

VarNodes == {Var("a"), Var("b")}

NextVar ==
    \/ \E name \in VarNames, ty \in VarTypes : TDeclareVar(name, ty)
    \/ TScopeEnter
    \/ TScopeExit
    \/ \E n \in VarNodes : TResolveType(n)
    \/ TDrop
    \/ \E name \in VarNames, inst \in BindInstances : EAddVariable(name, inst)
    \/ \E name \in VarNames, inst \in BindInstances : EReplaceVariable(name, inst)
    \/ EScopeEnter
    \/ EScopeExit
    \/ \E n \in VarNodes : EExecute(n)
    \/ EReturn

SpecVar == Init /\ [][NextVar]_vars

-----------------------------------------------------------------------------
(* Compiler directives: built from a call, then resolved and executed *)

\* the sequences over S of length at most n
RECURSIVE SeqsUpTo(_, _)
SeqsUpTo(S, n) ==
    IF n = 0 THEN {<<>>}
    ELSE LET shorter == SeqsUpTo(S, n - 1)
         IN  shorter \cup {Append(q, x) : q \in {r \in shorter : Len(r) = n - 1}, x \in S}

CallArgs == {JkInt(1), Var("a"), FunctionCall("f")}
Calls == {FunctionCallWith(name, args) : name \in CallNames, args \in SeqsUpTo(CallArgs, MaxArgs)}

JFromFunctionCall(fc) ==
    /\ Running
    /\ ~node.some
    /\ LET r == from_function_call(fc)
       IN  /\ node' = IF r.ok THEN Some(r.v) ELSE None
           /\ last' = Last("from_function_call", fc, r, None, "ok")
    /\ UNCHANGED <<tctx, ctx, program, pc, uses, held>>

\* the directive at hand is executed
JExecute ==
    /\ Running
    /\ node.some
    /\ node.v.tag = "JkInst"
    /\ last.op # "execute"
    /\ LET r == execute(node.v, ctx)
       IN  /\ ctx' = r.ctx
           /\ last' = [Last("execute", node.v, r.res, ctx, r.status) EXCEPT !.log = r.log]
    /\ UNCHANGED <<tctx, node, program, pc, uses, held>>

\* the types a caller may try to cache in an instruction
CacheTypes == {Void, Unknown, Later, ErrorTy, Resolved("int")}

\* the directive at hand is resolved
JResolveType ==
    /\ Running
    /\ node.some
    /\ node.v.tag = "JkInst"
    /\ last.op # "resolve_type"
    /\ LET r == resolve_type(node.v, tctx)
       IN  /\ tctx' = r.ctx
           /\ node' = Some(r.node)
           /\ last' = Last("resolve_type", node.v, r.ty, tctx, "ok")
    /\ TypeVarsOnly

\* a type is cached in the directive at hand
JSetCachedType(ty) ==
    /\ Running
    /\ node.some
    /\ node.v.tag = "JkInst"
    /\ last.op # "set_cached_type"
    /\ node' = Some(set_cached_type(node.v, ty))
    /\ last' = Last("set_cached_type", node.v, ty, None, "ok")
    /\ UNCHANGED tctx
    /\ TypeVarsOnly

NextJkInst ==
    \/ \E fc \in Calls : JFromFunctionCall(fc)
    \/ \E name \in VarNames, ty \in VarTypes : TDeclareVar(name, ty)
    \/ TStartSecondPass
    \/ \E n \in {Var("b")} : TResolveType(n)
    \/ JResolveType
    \/ \E ty \in CacheTypes : JSetCachedType(ty)
    \/ TTypeOf
    \/ JExecute
    \/ TDrop

SpecJkInst == Init /\ [][NextJkInst]_vars

-----------------------------------------------------------------------------
(* The two passes over a program.  A program is a sequence of operations  *)
(* on the TypeCtx: declarations and uses of a function and of a type, and *)
(* the scopes entered and exited around them.                             *)

Item(k, name) == [k |-> k, name |-> name]
Items ==
    {Item("declare_function", f) : f \in FunctionNames}
        \cup {Item("get_function", f) : f \in FunctionNames}
        \cup {Item("declare_custom_type", t) : t \in TypeNames}
        \cup {Item("get_custom_type", t) : t \in TypeNames}
        \cup {Item("scope_enter", ""), Item("scope_exit", "")}

\* the number of scopes open above the outermost one after the first i items
RECURSIVE Depth(_, _)
Depth(p, i) ==
    IF i = 0 THEN 0
    ELSE Depth(p, i - 1) + (CASE p[i].k = "scope_enter" -> 1
                              [] p[i].k = "scope_exit" -> -1
                              [] OTHER -> 0)

\* every scope a program exits was entered by it, and none stays open
Balanced(p) ==
    /\ \A i \in 1..Len(p) : Depth(p, i) \in 0..MaxDepth
    /\ Depth(p, Len(p)) = 0

Programs == {p \in SeqsUpTo(Items, MaxProgram) : Len(p) > 0 /\ Balanced(p)}

InitTwoPass ==
    /\ tctx = TypeCtxNew
    /\ ctx = ContextNew
    /\ node = None
    /\ last = Last("new", None, None, None, "ok")
    /\ program \in Programs
    /\ pc = 1
    /\ uses = <<>>
    /\ held = None

At(k) == pc <= Len(program) /\ program[pc].k = k

WalkVarsOnly == UNCHANGED <<ctx, node, last, program, held>>

WalkDeclareFunction ==
    /\ At("declare_function")
    /\ tctx' = declare_function(tctx, program[pc].name, <<>>, Resolved("int")).ctx
    /\ pc' = pc + 1
    /\ UNCHANGED uses
    /\ WalkVarsOnly

WalkDeclareCustomType ==
    /\ At("declare_custom_type")
    /\ tctx' = declare_custom_type(tctx, program[pc].name, Resolved(program[pc].name), <<>>).ctx
    /\ pc' = pc + 1
    /\ UNCHANGED uses
    /\ WalkVarsOnly

\* a use looks the name up; what it found is kept with the index of the use
WalkGetFunction ==
    /\ At("get_function")
    /\ uses' = Append(uses, [at |-> pc, found |-> get_function(tctx, program[pc].name).some])
    /\ pc' = pc + 1
    /\ UNCHANGED tctx
    /\ WalkVarsOnly

WalkGetCustomType ==
    /\ At("get_custom_type")
    /\ uses' = Append(uses, [at |-> pc, found |-> get_custom_type(tctx, program[pc].name).some])
    /\ pc' = pc + 1
    /\ UNCHANGED tctx
    /\ WalkVarsOnly

WalkScopeEnter ==
    /\ At("scope_enter")
    /\ tctx' = TypeCtxScopeEnter(tctx)
    /\ pc' = pc + 1
    /\ UNCHANGED uses
    /\ WalkVarsOnly

WalkScopeExit ==
    /\ At("scope_exit")
    /\ tctx' = TypeCtxScopeExit(tctx)
    /\ pc' = pc + 1
    /\ UNCHANGED uses
    /\ WalkVarsOnly

\* the first pass is over: the second pass is started and walks the program again
WalkStartSecondPass ==
    /\ pc = Len(program) + 1
    /\ ~tctx.is_second_pass
    /\ tctx' = start_second_pass(tctx)
    /\ pc' = 1
    /\ uses' = <<>>
    /\ WalkVarsOnly

NextTwoPass ==
    \/ WalkDeclareFunction
    \/ WalkDeclareCustomType
    \/ WalkGetFunction
    \/ WalkGetCustomType
    \/ WalkScopeEnter
    \/ WalkScopeExit
    \/ WalkStartSecondPass

SpecTwoPass == InitTwoPass /\ [][NextTwoPass]_vars

-----------------------------------------------------------------------------
(* Printing.  A printed form is the sequence of its tokens.               *)

\* a token of text, and the token a primitive value prints as
Tok(s) == [s |-> s]
ValueTok(ty, data) == [ty |-> ty, data |-> data]

OperatorTexts == {"+", "-", "*", "/", "(", ")", "==", "!="}

\* From<&str> for Operator; any other text is unreachable!()
Operator_from_str(op_str) ==
    CASE op_str = "+" -> "Add"
      [] op_str = "-" -> "Sub"
      [] op_str = "*" -> "Mul"
      [] op_str = "/" -> "Div"
      [] op_str = "(" -> "LeftParenthesis"
      [] op_str = ")" -> "RightParenthesis"
      [] op_str = "==" -> "Equals"
      [] op_str = "!=" -> "NotEquals"

\* From<Operator> for &str
Operator_as_str(op) ==
    CASE op = "Add" -> "+"
      [] op = "Sub" -> "-"
      [] op = "Mul" -> "*"
      [] op = "Div" -> "/"
      [] op = "LeftParenthesis" -> "("
      [] op = "RightParenthesis" -> ")"
      [] op = "Equals" -> "=="
      [] op = "NotEquals" -> "=="

RECURSIVE print(_), Block_print_insts(_, _)

\* the literals print their value
Literal_print(n) ==
    <<ValueTok(n.tag, IF n.tag = "JkBool" THEN (IF n.b THEN 1 ELSE 0) ELSE n.v)>>

\* Var::print
Var_print(n) ==
    LET base == IF n.instance.ty.ck = "Resolved"
                THEN <<Tok(n.name), Tok("/* :"), Tok(n.instance.ty.id), Tok("*/")>>
                ELSE <<Tok(n.name)>>
    IN  base \o <<Tok("="), ValueTok("instance", n.instance.data)>>

\* BinaryOp::print
BinaryOp_print(n) == print(n.lhs) \o <<Tok(Operator_as_str(n.op))>> \o print(n.rhs)

\* IfElse::print
IfElse_print(n) ==
    LET base == <<Tok("if")>> \o print(n.condition) \o print(n.if_body)
    IN  IF n.else_body.some THEN base \o <<Tok("else")>> \o print(n.else_body.v)
        ELSE base

\* JkInst::print
JkInst_print(n) ==
    <<Tok(CASE n.kind = "Dump" -> "@dump"
            [] n.kind = "Quit" -> "@quit"
            [] n.kind = "Ir" -> "@ir")>>

\* Block: its instructions between braces
Block_print_insts(insts, i) ==
    IF i > Len(insts) THEN <<>>
    ELSE print(insts[i]) \o <<Tok(";")>> \o Block_print_insts(insts, i + 1)
Block_print(n) == <<Tok("{")>> \o Block_print_insts(n.insts, 1) \o <<Tok("}")>>

\* Instruction::print, by node variant
print(n) ==
    CASE n.tag = "Var" -> Var_print(n)
      [] n.tag = "BinaryOp" -> BinaryOp_print(n)
      [] n.tag = "IfElse" -> IfElse_print(n)
      [] n.tag = "Block" -> Block_print(n)
      [] n.tag = "JkInst" -> JkInst_print(n)
      [] n.tag = "FunctionCall" -> <<Tok(n.name), Tok("("), Tok(")")>>
      [] OTHER -> Literal_print(n)

\* the instructions the model prints
PrintTrees ==
    TypeTrees \cup {BinaryOp(l, r, op) : l \in {JkInt(1), Var("a")},
                                         r \in {JkInt(2)}, op \in Operators}

\* an Operator is turned into its text
PAsStr(op) ==
    /\ last' = Last("as_str", op, Operator_as_str(op), None, "ok")
    /\ UNCHANGED <<tctx, ctx, node, program, pc, uses, held>>

\* the text of an Operator is turned back into an Operator
PFromStr ==
    /\ last.op = "as_str"
    /\ last' = Last("from_str", last.res, Operator_from_str(last.res), Some(last.arg), "ok")
    /\ UNCHANGED <<tctx, ctx, node, program, pc, uses, held>>

\* an instruction is printed
PPrint(n) ==
    /\ node' = Some(n)
    /\ last' = Last("print", n, print(n), None, "ok")
    /\ UNCHANGED <<tctx, ctx, program, pc, uses, held>>

NextPrint ==
    \/ \E op \in Operators : PAsStr(op)
    \/ PFromStr
    \/ \E n \in PrintTrees : PPrint(n)

SpecPrint == Init /\ [][NextPrint]_vars

-----------------------------------------------------------------------------
(* A tree is resolved, then executed *)

ALeaves == {JkInt(1), JkInt(2), JkFloat(1), JkBool(TRUE), JkBool(FALSE)}

\* the operators a kernel answers
KernelOperators == {"Add", "Sub", "Mul", "Div", "Equals", "NotEquals"}

ABinOps == {BinaryOp(l, r, op) : l \in ALeaves, r \in ALeaves, op \in KernelOperators}

\* a comparison as an operand and as a condition
ANested ==
    {BinaryOp(BinaryOp(JkInt(1), JkInt(2), op), r, "Add") :
        op \in {"Add", "Equals"}, r \in {JkInt(1), JkBool(TRUE)}}
        \cup {IfElse(cnd, Block(<<x>>, FALSE), Some(Block(<<y>>, FALSE))) :
                cnd \in {JkBool(TRUE), JkBool(FALSE), BinaryOp(JkInt(1), JkInt(2), "Equals")},
                x \in {JkInt(1), BinaryOp(JkInt(1), JkInt(1), "NotEquals")},
                y \in {JkInt(2), JkBool(TRUE)}}

AgreeTrees == ALeaves \cup ABinOps \cup ANested

\* a freshly built tree is resolved; what the checker said is kept
AResolveType(n) ==
    /\ Running
    /\ ~node.some
    /\ LET r == resolve_type(n, tctx)
       IN  /\ tctx' = r.ctx
           /\ node' = Some(r.node)
           /\ held' = Some([ty |-> r.ty,
                            diagnostics |-> Len(r.ctx.error_handler) - Len(tctx.error_handler)])
           /\ last' = Last("resolve_type", n, r.ty, tctx, "ok")
    /\ UNCHANGED <<ctx, program, pc, uses>>

\* the tree resolved last is executed
AExecute ==
    /\ Running
    /\ node.some
    /\ last.op = "resolve_type"
    /\ LET r == execute(node.v, ctx)
       IN  /\ ctx' = r.ctx
           /\ last' = [Last("execute", node.v, r.res, ctx, r.status) EXCEPT !.log = r.log]
    /\ UNCHANGED <<tctx, node, program, pc, uses, held>>

\* the next tree is taken up in a fresh TypeCtx and a fresh Context
ANew ==
    /\ node.some
    /\ tctx' = TypeCtxNew
    /\ ctx' = ContextNew
    /\ node' = None
    /\ held' = None
    /\ last' = Last("new", None, None, None, "ok")
    /\ UNCHANGED <<program, pc, uses>>

NextAgree ==
    \/ \E n \in AgreeTrees : AResolveType(n)
    \/ AExecute
    \/ ANew

SpecAgree == Init /\ [][NextAgree]_vars

-----------------------------------------------------------------------------
(* Conditions whose type is not known yet *)

\* a variable may be declared from a call that is Later in the first pass
LaterVarTypes == {Later, Resolved("bool")}

LaterBlocks == {Block(<<>>, TRUE), Block(<<JkInt(1)>>, FALSE), Block(<<Var("b")>>, FALSE)}

LaterIfElses ==
    {IfElse(cnd, b, e) : cnd \in {Var("a"), FunctionCall("f"), JkBool(TRUE)},
                         b \in LaterBlocks,
                         e \in {None} \cup {Some(x) : x \in LaterBlocks}}

\* an IfElse with an IfElse for its condition
LaterTrees ==
    LaterIfElses
        \cup {IfElse(IfElse(FunctionCall("f"), Block(<<JkInt(1)>>, FALSE), None),
                     Block(<<Var("b")>>, FALSE), None)}

NextLater ==
    \/ \E name \in VarNames, ty \in LaterVarTypes : TDeclareVar(name, ty)
    \/ \E name \in FunctionNames : TDeclareFunction(name)
    \/ TStartSecondPass
    \/ \E n \in LaterTrees : TResolveType(n)
    \/ TDrop

SpecLater == Init /\ [][NextLater]_vars

-----------------------------------------------------------------------------
(* One TypeCtx and one Context through every operation that reaches them *)

GrowTypeTrees == {Var("a"), Var("b"), BinaryOp(JkInt(1), JkFloat(1), "Add")}

GrowExecTrees == {JkInt(1), Var("b"), BinaryOp(JkInt(1), JkInt(0), "Div")}

NextGrow ==
    \/ \E name \in VarNames, ty \in VarTypes : TDeclareVar(name, ty)
    \/ \E name \in FunctionNames : TDeclareFunction(name)
    \/ \E name \in TypeNames : TDeclareCustomType(name)
    \/ \E ns \in {"variables", "functions", "types"}, name \in VarNames : TGet(ns, name)
    \/ TScopeEnter
    \/ TScopeExit
    \/ TStartSecondPass
    \/ \E n \in GrowTypeTrees : TResolveType(n)
    \/ TDrop
    \/ \E n \in GrowExecTrees : EExecute(n)
    \/ EReturn

SpecGrow == Init /\ [][NextGrow]_vars

-----------------------------------------------------------------------------
(* Helpers of the properties *)

\* the number of errors of an aggregator whose message is one of msgs
RECURSIVE Count(_, _)
Count(errors, msgs) ==
    IF errors = <<>> THEN 0
    ELSE (IF Head(errors).msg \in msgs THEN 1 ELSE 0) + Count(Tail(errors), msgs)

BinopMsg == "trying to do binary operation on invalid types"
CondMsg == "if condition should be a boolean"
MismatchMsg == "incompatible types for if and else block"
NoElseMsg == "if block has a return type but no else block to match it"
BranchMsgs == {MismatchMsg, NoElseMsg}

\* the last operation resolved a freshly built node of the given variant
Resolving(tag) == last.op = "resolve_type" /\ last.arg.tag = tag

\* the last operation executed a node of the given variant
Executing(tag) == last.op = "execute" /\ last.arg.tag = tag

\* the index of the innermost scope that holds the name, 0 when none does
InnermostWith(scopes, name) ==
    LET hits == {i \in 1..Len(scopes) : name \in DOMAIN scopes[i].variables}
    IN  IF hits = {} THEN 0 ELSE CHOOSE i \in hits : \A k \in hits : i <= k

\* what a caller reads from an instance it was given: the instance, or, had
\* it been given the live binding, the instance bound at the time of reading
Observed(x, c) ==
    IF "alias" \in DOMAIN x
    THEN LET i == InnermostWith(c.scopes, x.alias)
         IN  IF i = 0 THEN EmptyInstance ELSE c.scopes[i].variables[x.alias].instance
    ELSE x

\* an IfElse whose resolution does not stop at a first-pass Later condition
Undeferred(n, c) ==
    LET cond == type_of(n.condition, c)
    IN  ~(cond.ty = Later /\ ~c.is_second_pass)

-----------------------------------------------------------------------------
(* C2: when the two operands of a BinaryOp resolve to differing types,    *)
(* resolve_type returns the Unknown marker, never a Resolved type or      *)
(* Void, and the BinaryOp records exactly one diagnostic of its own, the  *)
(* last of the aggregator: one in total when the operands record none.    *)
C2_MismatchedBinaryOp ==
    Resolving("BinaryOp") =>
        LET n == last.arg
            l == resolve_type(n.lhs, last.pre)
            r == resolve_type(n.rhs, l.ctx)
            after == tctx.error_handler
        IN  l.ty # r.ty =>
                /\ last.res = Unknown
                /\ last.res.ck \notin {"Resolved", "Void"}
                /\ Len(after) = Len(r.ctx.error_handler) + 1
                /\ after[Len(after)] = Error("TypeChecker", BinopMsg)
                /\ SubSeq(after, 1, Len(after) - 1) = r.ctx.error_handler
                /\ (r.ctx.error_handler = last.pre.error_handler
                        => Len(after) = Len(last.pre.error_handler) + 1)

\* 1 + 1.0 was resolved: Unknown, with one diagnostic
C2_Witness ==
    /\ Resolving("BinaryOp")
    /\ last.arg = BinaryOp(JkInt(1), JkFloat(1), "Add")
    /\ last.pre.error_handler = <<>>
    /\ last.res = Unknown
    /\ tctx.error_handler = <<Error("TypeChecker", BinopMsg)>>

-----------------------------------------------------------------------------
(* C4: IfElse::resolve_type follows the decision table on the type of the *)
(* if-block and the presence and type of the else-block: (Void, absent)   *)
(* gives Void and (T, Some(T)) gives T, both without a branch diagnostic; *)
(* (T, Some(U)) with U # T records the mismatch diagnostic and gives      *)
(* Error; (T non-Void, absent) records the missing-else diagnostic and    *)
(* gives Error.                                                           *)
C4_IfElseDecisionTable ==
    (Resolving("IfElse") /\ Undeferred(last.arg, last.pre)) =>
        LET n == last.arg
            cond == type_of(n.condition, last.pre)
            if_r == type_of(n.if_body, cond.ctx)
            else_r == IF n.else_body.some THEN type_of(n.else_body.v, if_r.ctx) ELSE if_r
            if_ty == if_r.ty
            after == tctx.error_handler
            \* the branch diagnostics the blocks recorded themselves
            inner == Count(else_r.ctx.error_handler, BranchMsgs)
            branch == Count(after, BranchMsgs) - inner
        IN  CASE ~n.else_body.some /\ if_ty = Void ->
                    last.res = Void /\ branch = 0
              [] n.else_body.some /\ else_r.ty = if_ty ->
                    last.res = if_ty /\ branch = 0
              [] n.else_body.some /\ else_r.ty # if_ty ->
                    /\ last.res = ErrorTy
                    /\ branch = 1
                    /\ after[Len(after)] = Error("TypeChecker", MismatchMsg)
              [] ~n.else_body.some /\ if_ty # Void ->
                    /\ last.res = ErrorTy
                    /\ branch = 1
                    /\ after[Len(after)] = Error("TypeChecker", NoElseMsg)

\* if true { 1 } else { 1.0 } was resolved: Error, with the mismatch diagnostic
C4_Witness ==
    /\ Resolving("IfElse")
    /\ last.arg = IfElse(JkBool(TRUE), Block(<<JkInt(1)>>, FALSE),
                         Some(Block(<<JkFloat(1)>>, FALSE)))
    /\ last.res = ErrorTy
    /\ tctx.error_handler = <<Error("TypeChecker", MismatchMsg)>>

-----------------------------------------------------------------------------
(* C5: when the condition of an IfElse resolves to a type other than      *)
(* Resolved(bool), and is not a first-pass Later, resolve_type records    *)
(* one diagnostic for the condition and still resolves both blocks: the   *)
(* result and the branch diagnostics are those of the same IfElse with a  *)
(* boolean condition.                                                     *)
C5_NonBoolCondition ==
    (Resolving("IfElse") /\ Undeferred(last.arg, last.pre)) =>
        LET n == last.arg
            cond == type_of(n.condition, last.pre)
            \* the same IfElse with the condition `true`
            same == resolve_type([n EXCEPT !.condition = JkBool(TRUE)], last.pre)
            after == tctx.error_handler
            before == last.pre.error_handler
            cond_errors == Len(cond.ctx.error_handler) - Len(before)
        IN  cond.ty # Resolved("bool") =>
                /\ Count(after, {CondMsg}) = Count(cond.ctx.error_handler, {CondMsg}) + 1
                /\ after[Len(cond.ctx.error_handler) + 1] = Error("TypeChecker", CondMsg)
                /\ last.res = same.ty
                /\ Count(after, BranchMsgs) = Count(same.ctx.error_handler, BranchMsgs)
                /\ Len(after) = Len(same.ctx.error_handler) + cond_errors + 1

\* if 1.0 { 1 } else { 1 } was resolved: int, with the condition diagnostic only
C5_Witness ==
    /\ Resolving("IfElse")
    /\ last.arg = IfElse(JkFloat(1), Block(<<JkInt(1)>>, FALSE),
                         Some(Block(<<JkInt(1)>>, FALSE)))
    /\ last.res = Resolved("int")
    /\ tctx.error_handler = <<Error("TypeChecker", CondMsg)>>

-----------------------------------------------------------------------------
(* C8: declare_var, declare_function and declare_custom_type each refuse  *)
(* a name that is already in the current scope while the TypeCtx is in    *)
(* its first pass, return Ok for it once start_second_pass was called,    *)
(* and return Ok for a name new to the current scope in either pass.      *)
DeclareOps == {"declare_var", "declare_function", "declare_custom_type"}

NamespaceOf(op) ==
    CASE op = "declare_var" -> "variables"
      [] op = "declare_function" -> "functions"
      [] op = "declare_custom_type" -> "types"

C8_Redeclaration ==
    last.op \in DeclareOps =>
        LET ns == NamespaceOf(last.op)
            exists == last.arg \in DOMAIN last.pre.types[1][ns]
        IN  /\ (exists /\ ~last.pre.is_second_pass) => ~last.res.ok
            /\ (exists /\ last.pre.is_second_pass) => last.res.ok
            /\ ~exists => (last.res.ok /\ last.arg \in DOMAIN tctx.types[1][ns])
            /\ exists => tctx.types = last.pre.types

\* a function already in the current scope was declared again in the second pass
C8_Witness ==
    /\ last.op = "declare_function"
    /\ last.arg \in DOMAIN last.pre.types[1]["functions"]
    /\ last.pre.is_second_pass
    /\ last.res.ok

\* a custom type already in the current scope was refused in the first pass
C8_WitnessFirstPass ==
    /\ last.op = "declare_custom_type"
    /\ last.arg \in DOMAIN last.pre.types[1]["types"]
    /\ ~last.pre.is_second_pass
    /\ ~last.res.ok

-----------------------------------------------------------------------------
(* C1: BinaryOp::execute on two operands that evaluate to ints, under an  *)
(* operator for which the int kernel has a result, returns Some of the    *)
(* kernel's result for lhs op rhs (a + b, a - b, a * b and the quotient   *)
(* for literal operands) and records no error: a fresh Context has none   *)
(* afterwards.  The same holds with a BinaryOp as an operand.             *)
C1_BinaryOpExecute ==
    Executing("BinaryOp") =>
        LET n == last.arg
            l == execute(n.lhs, last.pre)
            r == execute(n.rhs, l.ctx)
            ints == /\ l.status = "ok" /\ l.res.some /\ l.res.v.ty = Resolved("int")
                    /\ r.status = "ok" /\ r.res.some /\ r.res.v.ty = Resolved("int")
        IN  ints =>
            LET a == l.res.v.data
                b == r.res.v.data
                kernel == JkInt_do_op(a, b, n.op)
            IN  kernel.ok =>
                    /\ last.status = "ok"
                    /\ last.res = Some(kernel.v)
                    /\ ctx.error_handler = last.pre.error_handler
                    /\ (last.pre = ContextNew => ctx.error_handler = <<>>)
                    /\ n.op = "Add" => last.res = Some(IntInstance(a + b))
                    /\ n.op = "Sub" => last.res = Some(IntInstance(a - b))
                    /\ n.op = "Mul" => last.res = Some(IntInstance(a * b))
                    /\ (n.op = "Div" /\ a >= 0 /\ b > 0)
                            => last.res = Some(IntInstance(a \div b))

\* MaxInt - 2 * 1 was executed on a fresh Context, its right operand being 2 * 1
C1_Witness ==
    /\ Executing("BinaryOp")
    /\ last.arg = BinaryOp(JkInt(MaxInt), BinaryOp(JkInt(2), JkInt(1), "Mul"), "Sub")
    /\ execute(last.arg.rhs, last.pre).res = Some(IntInstance(2))
    /\ last.pre = ContextNew
    /\ last.res = Some(IntInstance(MaxInt - 2))
    /\ ctx.error_handler = <<>>

-----------------------------------------------------------------------------
-----------------------------------------------------------------------------
(* C6: a Var whose name is in no scope of the scope chain: resolve_type   *)
(* records one TypeChecker diagnostic and returns Error, execute records  *)
(* one Context error and returns nothing, and neither panics.  For a name *)
(* that is declared, resolve_type returns the type of its innermost       *)
(* declaration and records nothing.                                       *)
C6_UndeclaredVar ==
    /\ Resolving("Var") =>
            LET name == last.arg.name
                i == InnermostWith(last.pre.types, name)
            IN  /\ last.status = "ok"
                /\ i = 0 =>
                    /\ last.res = ErrorTy
                    /\ tctx.error_handler = Append(last.pre.error_handler,
                           Error("TypeChecker", "use of undeclared variable"))
                /\ i # 0 =>
                    /\ last.res = last.pre.types[i].variables[name]
                    /\ tctx.error_handler = last.pre.error_handler
    /\ Executing("Var") =>
            LET name == last.arg.name
                i == InnermostWith(last.pre.scopes, name)
            IN  /\ last.status = "ok"
                /\ i = 0 =>
                    /\ last.res = None
                    /\ ctx.error_handler = Append(last.pre.error_handler,
                           Error("Context", "variable has not been declared"))

\* the undeclared b was resolved: Error, with its diagnostic
C6_Witness ==
    /\ Resolving("Var")
    /\ InnermostWith(last.pre.types, last.arg.name) = 0
    /\ last.res = ErrorTy
    /\ Len(tctx.error_handler) = Len(last.pre.error_handler) + 1

\* the unbound b was executed: nothing, with its error
C6_WitnessExecute ==
    /\ Executing("Var")
    /\ InnermostWith(last.pre.scopes, last.arg.name) = 0
    /\ last.res = None
    /\ Len(ctx.error_handler) = Len(last.pre.error_handler) + 1

-----------------------------------------------------------------------------
(* C7: executing a Var whose name is bound returns Some of the instance   *)
(* of the innermost binding and records no error; an instance a caller    *)
(* got keeps reading as the instance that was bound when it was returned, *)
(* whatever happens to the binding afterwards.                            *)
C7_VarRoundTrip ==
    /\ Executing("Var") =>
            LET name == last.arg.name
                i == InnermostWith(last.pre.scopes, name)
            IN  i # 0 =>
                    /\ last.res.some
                    /\ Observed(last.res.v, last.pre)
                           = last.pre.scopes[i].variables[name].instance
                    /\ ctx = last.pre
    /\ held.some => Observed(held.v.got, ctx) = held.v.stored

\* a caller holds the instance it got from a, and a has been bound to another since
C7_Witness ==
    /\ held.some
    /\ held.v.got = held.v.stored
    /\ InnermostWith(ctx.scopes, held.v.name) # 0
    /\ ctx.scopes[InnermostWith(ctx.scopes, held.v.name)].variables[held.v.name].instance
           # held.v.stored

-----------------------------------------------------------------------------
(* C10: JkInst::from_function_call succeeds exactly when the name of the  *)
(* call is "dump", "quit" or "ir", whatever its arguments, and the node   *)
(* it builds has the matching kind; for every other name it returns a     *)
(* Parsing error and no node is built.                                    *)
C10_FromFunctionCall ==
    last.op = "from_function_call" =>
        LET name == last.arg.name
            r == last.res
        IN  /\ r.ok <=> name \in {"dump", "quit", "ir"}
            /\ r.ok =>
                /\ r.v.tag = "JkInst"
                /\ r.v.kind = (CASE name = "dump" -> "Dump"
                                 [] name = "quit" -> "Quit"
                                 [] name = "ir" -> "Ir")
                /\ node = Some(r.v)
            /\ ~r.ok => (r.v.kind = "Parsing" /\ node = None)

\* the directive of ir(f) was built
C10_Witness ==
    /\ last.op = "from_function_call"
    /\ last.arg = FunctionCallWith("ir", <<FunctionCall("f")>>)
    /\ node = Some(JkInstWith("Ir", <<FunctionCall("f")>>))

\* tamer() was refused
C10_WitnessInvalid ==
    /\ last.op = "from_function_call"
    /\ last.arg = FunctionCallWith("tamer", <<>>)
    /\ ~last.res.ok
    /\ node = None

-----------------------------------------------------------------------------
(* C9 *)

\* the namespace of an item and whether it declares or uses its name
DeclOf(use) ==
    CASE use = "get_function" -> "declare_function"
      [] use = "get_custom_type" -> "declare_custom_type"

\* item j declares the name item k uses
Declares(p, j, k) == p[j].k = DeclOf(p[k].k) /\ p[j].name = p[k].name

\* the name used by item k is declared somewhere in the program
DeclaredSomewhere(p, k) == \E j \in 1..Len(p) : Declares(p, j, k)

\* the name used by item k is declared in the outermost scope, anywhere in the
\* program, or before k in a scope that is still open at k
DeclaredInReach(p, k) ==
    \E j \in 1..Len(p) :
        /\ Declares(p, j, k)
        /\ \/ Depth(p, j) = 0
           \/ j < k /\ \A m \in j..k : Depth(p, m) >= Depth(p, j)

-----------------------------------------------------------------------------
(* C11: every compiler-directive node, of every kind and in every state:  *)
(* kind() is Statement; resolve_type returns Void and records no          *)
(* diagnostic; cached_type is Void, also after set_cached_type was called *)
(* with another type; and execute never returns a value.                  *)
C11_DirectiveIsVoidStatement ==
    /\ (node.some /\ node.v.tag = "JkInst") =>
            /\ JkInst_kind(node.v) = "Statement"
            /\ cached_type(node.v) = Some(Void)
    /\ (last.op \in {"resolve_type", "type_of"} /\ last.arg.tag = "JkInst") =>
            /\ last.res = Void
            /\ tctx.error_handler = last.pre.error_handler
    /\ (last.op = "execute" /\ last.arg.tag = "JkInst") => last.res = None

\* an Ir directive that was told to cache Unknown, then resolved in a TypeCtx
\* that holds an error already
C11_Witness ==
    /\ last.op = "resolve_type"
    /\ last.arg.tag = "JkInst"
    /\ last.arg.kind = "Ir"
    /\ tctx.error_handler # <<>>
    /\ node.some

\* a Dump directive was executed
C11_WitnessExecute ==
    /\ last.op = "execute"
    /\ last.arg = JkInstWith("Dump", <<Var("a")>>)
    /\ last.status = "ok"

\* Unknown was cached in a Quit directive
C11_WitnessSetCachedType ==
    /\ last.op = "set_cached_type"
    /\ last.res = Unknown
    /\ node.some
    /\ node.v.tag = "JkInst"
    /\ node.v.kind = "Quit"

-----------------------------------------------------------------------------
(* C12 *)

NodeVariants == {"BinaryOp", "IfElse", "Var", "JkInst"}

\* the last operation was an execute that returned, and it returned nothing
ReturnedNothing ==
    /\ last.op = "execute"
    /\ last.status = "ok"
    /\ last.res = None

\* the execute that returned last recorded at least one error
RecordedError == Len(ctx.error_handler) > Len(last.pre.error_handler)

\* both operands of the BinaryOp yield a value, and the two differ in type
OperandTypesDiffer(n, c) ==
    LET l == execute(n.lhs, c)
        r == execute(n.rhs, l.ctx)
    IN  /\ l.res.some
        /\ r.res.some
        /\ l.res.v.ty # r.res.v.ty

-----------------------------------------------------------------------------
(* C13 *)

\* the types that say "a diagnostic was recorded for this node already"
ErrorMarkers == {ErrorTy, Unknown}

B2N(b) == IF b THEN 1 ELSE 0

\* the type a freshly built node resolves to
TypeIn(n, c) == resolve_type(n, c).ty

\* the number of nodes of the tree at which an error originates: an undeclared
\* name, or a mismatch between children none of which is an error marker
RECURSIVE Origins(_, _), OriginsOfAll(_, _)
Origins(n, c) ==
    CASE n.tag = "Var" -> B2N(~get_var(c, n.name).some)
      [] n.tag = "FunctionCall" ->
            B2N(~get_function(c, n.name).some /\ c.is_second_pass)
      [] n.tag = "BinaryOp" ->
            LET l == TypeIn(n.lhs, c)
                r == TypeIn(n.rhs, c)
            IN  Origins(n.lhs, c) + Origins(n.rhs, c)
                    + B2N(l # r /\ l \notin ErrorMarkers /\ r \notin ErrorMarkers)
      [] n.tag = "Block" -> OriginsOfAll(n.insts, c)
      [] n.tag = "IfElse" ->
            LET cond == TypeIn(n.condition, c)
                if_ty == TypeIn(n.if_body, c)
            IN  IF cond = Later /\ ~c.is_second_pass THEN Origins(n.condition, c)
                ELSE Origins(n.condition, c) + Origins(n.if_body, c)
                        + B2N(cond # Resolved("bool") /\ cond \notin ErrorMarkers)
                        + (IF n.else_body.some
                           THEN LET else_ty == TypeIn(n.else_body.v, c)
                                IN  Origins(n.else_body.v, c)
                                        + B2N(/\ if_ty # else_ty
                                              /\ if_ty \notin ErrorMarkers
                                              /\ else_ty \notin ErrorMarkers)
                           ELSE B2N(if_ty # Void /\ if_ty \notin ErrorMarkers))
      [] OTHER -> 0
OriginsOfAll(insts, c) ==
    IF insts = <<>> THEN 0 ELSE Origins(Head(insts), c) + OriginsOfAll(Tail(insts), c)

(* C13: during type resolution a node whose child already resolved to the *)
(* error marker records no diagnostic of its own because of that child:   *)
(* for any tree, the number of diagnostics recorded equals the number of  *)
(* nodes at which an error originates, not the number of ancestors that   *)
(* re-inspect it.                                                         *)
C13_NoRedundantDiagnostic ==
    last.op = "resolve_type" =>
        Len(tctx.error_handler) - Len(last.pre.error_handler)
            = Origins(last.arg, last.pre)

-----------------------------------------------------------------------------
(* C14: printing round-trips: for every Operator op, turning op into its  *)
(* text and that text back into an Operator yields op again, so the       *)
(* printed form '<lhs> <op> <rhs>' of a BinaryOp reads back with the same *)
(* operator and operands; and an IfElse prints as 'if <cond> <if-block>'  *)
(* followed by ' else <else-block>' exactly when it has an else-block.    *)
C14_PrintRoundTrip ==
    /\ last.op = "from_str" => last.res = last.pre.v
    /\ (last.op = "print" /\ last.arg.tag = "BinaryOp") =>
            LET l == print(last.arg.lhs)
                r == print(last.arg.rhs)
                text == last.res
            IN  /\ Len(text) = Len(l) + 1 + Len(r)
                /\ SubSeq(text, 1, Len(l)) = l
                /\ SubSeq(text, Len(l) + 2, Len(text)) = r
                /\ text[Len(l) + 1].s \in OperatorTexts
                /\ Operator_from_str(text[Len(l) + 1].s) = last.arg.op
    /\ (last.op = "print" /\ last.arg.tag = "IfElse") =>
            LET base == <<Tok("if")>> \o print(last.arg.condition) \o print(last.arg.if_body)
                text == last.res
            IN  IF last.arg.else_body.some
                THEN text = base \o <<Tok("else")>> \o print(last.arg.else_body.v)
                ELSE text = base

-----------------------------------------------------------------------------
(* C15: static and runtime types agree: for every tree built from         *)
(* primitive literals, BinaryOp (any operator, Equals and NotEquals       *)
(* included) and IfElse whose type resolution records no diagnostic and   *)
(* yields Resolved(T), every instance that execute returns for that tree  *)
(* carries the type Resolved(T), and no instance carrying Unknown is ever *)
(* returned as a result.                                                  *)
C15_StaticRuntimeAgree ==
    (last.op = "execute" /\ last.res.some /\ held.some) =>
        /\ last.res.v.ty # Unknown
        /\ (held.v.diagnostics = 0 /\ held.v.ty.ck = "Resolved") =>
                last.res.v.ty = held.v.ty

-----------------------------------------------------------------------------
(* C16 *)

\* the errors recorded between two states of a Context
NewErrors(before, after) ==
    SubSeq(after.error_handler, Len(before.error_handler) + 1, Len(after.error_handler))

InvalidUse == Error("Context", "invalid use of statement in binary operation")

Logged(line) == \E i \in 1..Len(last.log) : last.log[i] = line

(* C16 as stated: BinaryOp::execute evaluates the left operand before the *)
(* right one and always executes both, also when the left operand yields  *)
(* nothing; if either operand yields nothing, the BinaryOp yields nothing *)
(* and the kernel is not invoked.                                         *)
C16_AsStated ==
    (Executing("BinaryOp") /\ last.status = "ok") =>
        LET n == last.arg
            l == execute(n.lhs, last.pre)
            r == execute(n.rhs, l.ctx)
        IN  (l.status = "ok" /\ r.status = "ok") =>
                /\ Len(last.log) >= 1 + Len(l.log) + Len(r.log)
                /\ SubSeq(last.log, 2, 1 + Len(l.log)) = l.log
                /\ SubSeq(last.log, 2 + Len(l.log), 1 + Len(l.log) + Len(r.log)) = r.log
                /\ Len(NewErrors(last.pre, ctx))
                        >= Len(NewErrors(last.pre, l.ctx)) + Len(NewErrors(l.ctx, r.ctx))
                /\ (~l.res.some \/ ~r.res.some) =>
                        (last.res = None /\ ~Logged("BINOP EXIT"))

(* C16 as amended: BinaryOp::execute evaluates the left operand first and *)
(* executes the right operand only when the left one yielded a value: a   *)
(* left operand that yields nothing ends the BinaryOp at once.  If either *)
(* operand yields nothing, the BinaryOp records one error for it, yields  *)
(* nothing, and the kernel is not invoked.                                *)
C16_LeftThenRight ==
    (Executing("BinaryOp") /\ last.status = "ok") =>
        LET n == last.arg
            enter == <<"BINOP ENTER">>
            l == execute(n.lhs, last.pre)
            r == execute(n.rhs, l.ctx)
        IN  l.status = "ok" =>
                IF ~l.res.some
                THEN /\ last.res = None
                     /\ last.log = enter \o l.log
                     /\ NewErrors(last.pre, ctx)
                            = NewErrors(last.pre, l.ctx) \o <<InvalidUse>>
                ELSE r.status = "ok" =>
                     /\ Len(last.log) >= 1 + Len(l.log) + Len(r.log)
                     /\ SubSeq(last.log, 1, 1 + Len(l.log) + Len(r.log))
                            = enter \o l.log \o r.log
                     /\ ~r.res.some =>
                            /\ last.res = None
                            /\ last.log = enter \o l.log \o r.log
                            /\ NewErrors(last.pre, ctx)
                                    = NewErrors(last.pre, r.ctx) \o <<InvalidUse>>

\* the left operand yielded nothing and the right one, an undeclared
\* variable, was left alone
C16_Witness ==
    /\ Executing("BinaryOp")
    /\ last.arg.lhs.tag = "JkInst"
    /\ last.arg.rhs.tag = "Var"
    /\ get_variable(last.pre, last.arg.rhs.name) = None
    /\ last.res = None
    /\ NewErrors(last.pre, ctx) = <<InvalidUse>>

-----------------------------------------------------------------------------
(* C17: when BinaryOp::execute runs on an unchecked tree and the two      *)
(* operand values carry differing types, it returns nothing without       *)
(* panicking, without invoking a kernel and without recording an error in *)
(* the Context: the only errors recorded are those of the operands.       *)
C17_MismatchIsSilent ==
    (Executing("BinaryOp") /\ OperandTypesDiffer(last.arg, last.pre)) =>
        LET l == execute(last.arg.lhs, last.pre)
            r == execute(last.arg.rhs, l.ctx)
        IN  /\ last.status = "ok"
            /\ last.res = None
            /\ ~Logged("BINOP EXIT")
            /\ last.log = <<"BINOP ENTER">> \o l.log \o r.log
            /\ NewErrors(last.pre, ctx)
                    = NewErrors(last.pre, l.ctx) \o NewErrors(l.ctx, r.ctx)

\* a BinaryOp such as `1 + 1.0` was executed unchecked
C17_Witness ==
    /\ Executing("BinaryOp")
    /\ OperandTypesDiffer(last.arg, last.pre)
    /\ last.arg.lhs.tag \in {"JkInt", "Var"}
    /\ last.arg.rhs.tag \in {"JkFloat", "JkBool"}
    /\ ctx.error_handler = last.pre.error_handler

-----------------------------------------------------------------------------
(* C18: if the condition of an IfElse resolves to Later while the TypeCtx *)
(* is in its first pass, resolve_type returns Later at once: it records   *)
(* no diagnostic and resolves neither block.  Once start_second_pass was  *)
(* called, a condition that still resolves to Later is not deferred any   *)
(* more: it is diagnosed as a non-boolean condition and the blocks are    *)
(* resolved.                                                              *)
C18_LaterCondition ==
    Resolving("IfElse") =>
        LET n == last.arg
            cond == type_of(n.condition, last.pre)
            same == resolve_type([n EXCEPT !.condition = JkBool(TRUE)], last.pre)
            recorded == NewErrors(last.pre, tctx)
        IN  cond.ty = Later =>
                IF ~last.pre.is_second_pass
                THEN /\ last.res = Later
                     /\ recorded = <<>>
                     /\ node.v.if_body = n.if_body
                     /\ node.v.else_body = n.else_body
                ELSE /\ recorded # <<>>
                     /\ Head(recorded) = Error("TypeChecker", CondMsg)
                     /\ Count(recorded, {CondMsg}) = 1
                     /\ Tail(recorded) = NewErrors(last.pre, same.ctx)
                     /\ last.res = same.ty

\* first pass: `if f() { b }` with f and b undeclared was put off
C18_Witness ==
    /\ Resolving("IfElse")
    /\ ~last.pre.is_second_pass
    /\ last.arg = IfElse(FunctionCall("f"), Block(<<Var("b")>>, FALSE), None)
    /\ last.res = Later
    /\ tctx.error_handler = <<>>

\* second pass: `if a { b }` with a still Later and b undeclared was diagnosed
C18_WitnessSecondPass ==
    /\ Resolving("IfElse")
    /\ last.pre.is_second_pass
    /\ get_var(last.pre, "a") = Some(Later)
    /\ last.arg = IfElse(Var("a"), Block(<<Var("b")>>, FALSE), None)
    /\ Len(tctx.error_handler) = 3

-----------------------------------------------------------------------------
(* C19 *)

IsPrefix(s, t) == Len(s) <= Len(t) /\ SubSeq(t, 1, Len(s)) = s

====
